---- MODULE Spec2Model ----
(***************************************************************************)
(* Model of package gocrc (src/gocrc.go): the two combinators Race and     *)
(* NoRace, one call of either over a list of opaque workers, with the      *)
(* caller's context as environment.  Each Go statement that touches shared *)
(* state (channel, context, mutex, wait group, slice, flag) is one step.   *)
(***************************************************************************)
EXTENDS Integers, Sequences, FiniteSets, TLC

\* ---- bounds ------------------------------------------------------------
MaxWorkers == 2
MaxInner == 3

\* ---- values ------------------------------------------------------------
Nil == "nil"
Boom == "boom"
Canceled == "context canceled"
DeadlineExceeded == "context deadline exceeded"
CtxErrs == {Canceled, DeadlineExceeded}
Zero == 0

\* value worker i returns on success (distinct per worker, never Zero)
Val(i) == 10 * (i + 1)

\* Result[T]{Value, Err, Index}
MakeResult(v, e, index) == [Value |-> v, Err |-> e, Index |-> index]

\* Result[T]{}
ZeroResult == MakeResult(Zero, Nil, 0)

\* the error value returned by NoRace: nil or *MultiError{Results}
NilError == [isNil |-> TRUE, Results |-> <<>>]
MultiError(rs) == [isNil |-> FALSE, Results |-> rs]

VARIABLES
  op,          \* which combinator the caller invokes: "Race" or "NoRace"
  nWorkers,    \* len(workers)
  waits,       \* waits[i]: worker i selects on ctx.Done() while it runs
  ctxErr,      \* ctx.Err() of the caller's context (Nil: not done)
  raceCtxErr,  \* raceCtx.Err() of Race's child scope (Nil: not done)
  resultCh,    \* buffered channel of capacity 1
  results,     \* NoRace's pre-sized slice
  hasError,    \* NoRace's shared flag
  mu,          \* NoRace's mutex: -1 free, else index of the holder
  wg,          \* NoRace's WaitGroup counter
  pc,          \* position of the combinator's own goroutine
  launched,    \* number of goroutines started by the for loop
  wpc,         \* wpc[i]: position of worker goroutine i
  val, err,    \* val[i], err[i]: locals of worker goroutine i
  raceOut,     \* what Race returned: [res, err]
  noRaceOut,   \* what NoRace returned: [results, err]
  finished,    \* history: indices in the order the worker calls returned
  published,   \* history: indices in the order sends on resultCh succeeded
  ctxFirst,    \* history: ctx was done before any send on resultCh succeeded
  tie,         \* history: a worker returned while another was at its select
  gsize,       \* nested use: gsize[g] = len of the list worker g passes to NoRace
  ipc,         \* ipc[g]: position of the NoRace call made by worker g
  ilaunched,   \* ilaunched[g]: goroutines started by that call
  iwpc,        \* iwpc[g][k]: position of goroutine k of that call
  ival, ierr,  \* ival[g][k], ierr[g][k]: locals of goroutine k of that call
  iresults,    \* iresults[g]: results of that call
  ihasError,   \* ihasError[g]: hasError of that call
  imu,         \* imu[g]: mu of that call
  iwg          \* iwg[g]: wg of that call

vars == <<op, nWorkers, waits, ctxErr, raceCtxErr, resultCh, results, hasError,
          mu, wg, pc, launched, wpc, val, err, raceOut, noRaceOut,
          finished, published, ctxFirst, tie,
          gsize, ipc, ilaunched, iwpc, ival, ierr, iresults, ihasError, imu, iwg>>

innerVars == <<gsize, ipc, ilaunched, iwpc, ival, ierr, iresults, ihasError,
               imu, iwg>>

raceVars == <<raceCtxErr, resultCh, raceOut, published, tie>>
noRaceVars == <<results, hasError, mu, wg, noRaceOut>>
callVars == <<op, nWorkers, waits>>
histVars == <<finished, published, ctxFirst, tie>>

Workers == 0 .. (nWorkers - 1)

\* variant: the CancelFunc does nothing
cancelNoop(e) == e

\* cancel(): the CancelFunc of context.WithCancel; the first cancellation wins
cancel(e) == IF e = Nil THEN Canceled ELSE e

\* context.WithCancel(ctx): a child of a done parent is born done
WithCancel(parentErr) == parentErr

\* no worker has called NoRace itself (yet)
InnerStart ==
  /\ ipc = [g \in 0 .. (nWorkers - 1) |-> "start"]
  /\ ilaunched = [g \in 0 .. (nWorkers - 1) |-> 0]
  /\ iwpc = [g \in 0 .. (nWorkers - 1) |-> [k \in 0 .. (gsize[g] - 1) |-> "idle"]]
  /\ ival = [g \in 0 .. (nWorkers - 1) |-> [k \in 0 .. (gsize[g] - 1) |-> Zero]]
  /\ ierr = [g \in 0 .. (nWorkers - 1) |-> [k \in 0 .. (gsize[g] - 1) |-> Nil]]
  /\ iresults = [g \in 0 .. (nWorkers - 1) |-> <<>>]
  /\ ihasError = [g \in 0 .. (nWorkers - 1) |-> FALSE]
  /\ imu = [g \in 0 .. (nWorkers - 1) |-> -1]
  /\ iwg = [g \in 0 .. (nWorkers - 1) |-> 0]

Init ==
  /\ op \in {"Race", "NoRace"}
  /\ nWorkers \in 0 .. MaxWorkers
  /\ waits \in [0 .. (nWorkers - 1) -> BOOLEAN]
  /\ ctxErr \in {Nil} \cup CtxErrs
  /\ raceCtxErr = Nil
  /\ resultCh = <<>>
  /\ results = <<>>
  /\ hasError = FALSE
  /\ mu = -1
  /\ wg = 0
  /\ pc = "start"
  /\ launched = 0
  /\ wpc = [i \in 0 .. (nWorkers - 1) |-> "idle"]
  /\ val = [i \in 0 .. (nWorkers - 1) |-> Zero]
  /\ err = [i \in 0 .. (nWorkers - 1) |-> Nil]
  /\ raceOut = [res |-> ZeroResult, err |-> Nil]
  /\ noRaceOut = [results |-> <<>>, err |-> NilError]
  /\ finished = <<>>
  /\ published = <<>>
  /\ ctxFirst = (ctxErr # Nil)
  /\ tie = FALSE
  /\ gsize = [g \in 0 .. (nWorkers - 1) |-> 0]
  /\ InnerStart

\* ---- environment: the caller's context --------------------------------
\* the caller cancels ctx, or its deadline passes
CancelCtx ==
  /\ ctxErr = Nil
  /\ \E e \in CtxErrs : ctxErr' = e
  /\ ctxFirst' = (published = <<>>)
  /\ UNCHANGED <<callVars, innerVars, raceCtxErr, resultCh, noRaceVars, pc, launched,
                 wpc, val, err, raceOut, finished, published, tie>>

\* the context package cancels the child once the parent is done
PropagateCancel ==
  /\ op = "Race"
  /\ pc \in {"launch", "select"}
  /\ ctxErr # Nil
  /\ raceCtxErr = Nil
  /\ raceCtxErr' = ctxErr
  /\ UNCHANGED <<callVars, innerVars, ctxErr, resultCh, noRaceVars, pc, launched,
                 wpc, val, err, raceOut, histVars>>

\* ---- Race ---------------------------------------------------------------
\* variant: the empty call looks at ctx before it returns
RaceEmptyCtxFirst ==
  /\ op = "Race" /\ pc = "start" /\ nWorkers = 0
  /\ raceOut' = IF ctxErr # Nil THEN [res |-> MakeResult(Zero, ctxErr, -1), err |-> ctxErr]
                                ELSE [res |-> ZeroResult, err |-> Nil]
  /\ pc' = "returned"
  /\ UNCHANGED <<callVars, innerVars, ctxErr, raceCtxErr, resultCh, noRaceVars, launched,
                 wpc, val, err, histVars>>

\* if len(workers) == 0 { return Result[T]{}, nil }
RaceEmpty ==
  /\ op = "Race" /\ pc = "start" /\ nWorkers = 0
  /\ raceOut' = [res |-> ZeroResult, err |-> Nil]
  /\ pc' = "returned"
  /\ UNCHANGED <<callVars, innerVars, ctxErr, raceCtxErr, resultCh, noRaceVars, launched,
                 wpc, val, err, histVars>>

\* raceCtx, cancel := context.WithCancel(ctx); resultCh := make(chan, 1)
RaceSetup ==
  /\ op = "Race" /\ pc = "start" /\ nWorkers # 0
  /\ raceCtxErr' = WithCancel(ctxErr)
  /\ resultCh' = <<>>
  /\ pc' = "launch"
  /\ UNCHANGED <<callVars, innerVars, ctxErr, noRaceVars, launched, wpc, val, err,
                 raceOut, histVars>>

\* variant: the loop stops launching once a result is in the channel
RaceLaunchSkips ==
  /\ op = "Race" /\ pc = "launch" /\ launched < nWorkers
  /\ IF resultCh # <<>>
       THEN /\ pc' = "select"
            /\ UNCHANGED <<wpc, launched>>
       ELSE /\ wpc' = [wpc EXCEPT ![launched] = "running"]
            /\ launched' = launched + 1
            /\ pc' = IF launched + 1 = nWorkers THEN "select" ELSE "launch"
  /\ UNCHANGED <<callVars, innerVars, ctxErr, raceCtxErr, resultCh, noRaceVars, val, err,
                 raceOut, histVars>>

\* one iteration of the for loop: go func() {...}()
RaceLaunch ==
  /\ op = "Race" /\ pc = "launch" /\ launched < nWorkers
  /\ wpc' = [wpc EXCEPT ![launched] = "running"]
  /\ launched' = launched + 1
  /\ pc' = IF launched + 1 = nWorkers THEN "select" ELSE "launch"
  /\ UNCHANGED <<callVars, innerVars, ctxErr, raceCtxErr, resultCh, noRaceVars, val, err,
                 raceOut, histVars>>

\* variant: the received result is returned with a nil error
RecvReturnNilErr(res) == [res |-> res, err |-> Nil]

\* what Race returns for a received result: return res, res.Err
RecvReturn(res) == [res |-> res, err |-> res.Err]

\* variant: ctx's error is returned but not stored in the Result
CtxDoneReturnNoErr(e) == [res |-> MakeResult(Zero, Nil, -1), err |-> e]

\* what Race returns when ctx is done
CtxDoneReturn(e) == [res |-> MakeResult(Zero, e, -1), err |-> e]

\* variant: Race waits until every worker has reported
RaceRecvWaitsAll ==
  /\ op = "Race" /\ pc = "select"
  /\ Len(resultCh) >= nWorkers
  /\ raceOut' = RecvReturn(Head(resultCh))
  /\ resultCh' = Tail(resultCh)
  /\ raceCtxErr' = cancel(raceCtxErr)
  /\ pc' = "returned"
  /\ UNCHANGED <<callVars, innerVars, ctxErr, noRaceVars, launched, wpc, val, err,
                 histVars>>

\* variant: Race joins the worker goroutines before it takes the result
RaceRecvJoins ==
  /\ op = "Race" /\ pc = "select"
  /\ resultCh # <<>>
  /\ \A i \in Workers : wpc[i] = "done"
  /\ raceOut' = RecvReturn(Head(resultCh))
  /\ resultCh' = Tail(resultCh)
  /\ raceCtxErr' = cancel(raceCtxErr)
  /\ pc' = "returned"
  /\ UNCHANGED <<callVars, innerVars, ctxErr, noRaceVars, launched, wpc, val, err,
                 histVars>>

\* case res := <-resultCh  (then the deferred cancel())
RaceRecv ==
  /\ op = "Race" /\ pc = "select"
  /\ resultCh # <<>>
  /\ raceOut' = RecvReturn(Head(resultCh))
  /\ resultCh' = Tail(resultCh)
  /\ raceCtxErr' = cancel(raceCtxErr)
  /\ pc' = "returned"
  /\ UNCHANGED <<callVars, innerVars, ctxErr, noRaceVars, launched, wpc, val, err,
                 histVars>>

\* case <-ctx.Done()  (then the deferred cancel())
RaceCtxDone ==
  /\ op = "Race" /\ pc = "select"
  /\ ctxErr # Nil
  /\ raceOut' = CtxDoneReturn(ctxErr)
  /\ raceCtxErr' = cancel(raceCtxErr)
  /\ pc' = "returned"
  /\ UNCHANGED <<callVars, innerVars, ctxErr, resultCh, noRaceVars, launched, wpc, val,
                 err, histVars>>

\* val, err := worker(raceCtx): the worker returns an outcome of its own
RaceWorkerReturn(i) ==
  /\ op = "Race" /\ wpc[i] = "running"
  /\ \E o \in {<<Val(i), Nil>>, <<Zero, Boom>>} :
       /\ val' = [val EXCEPT ![i] = o[1]]
       /\ err' = [err EXCEPT ![i] = o[2]]
  /\ wpc' = [wpc EXCEPT ![i] = "select"]
  /\ finished' = Append(finished, i)
  /\ tie' = (tie \/ \E j \in Workers : j # i /\ wpc[j] = "select")
  /\ UNCHANGED <<callVars, innerVars, ctxErr, raceCtxErr, resultCh, noRaceVars, pc,
                 launched, raceOut, published, ctxFirst>>

\* val, err := worker(raceCtx): the worker sees raceCtx.Done() and gives up
RaceWorkerCancelled(i) ==
  /\ op = "Race" /\ wpc[i] = "running"
  /\ waits[i]
  /\ raceCtxErr # Nil
  /\ val' = [val EXCEPT ![i] = Zero]
  /\ err' = [err EXCEPT ![i] = raceCtxErr]
  /\ wpc' = [wpc EXCEPT ![i] = "select"]
  /\ finished' = Append(finished, i)
  /\ tie' = (tie \/ \E j \in Workers : j # i /\ wpc[j] = "select")
  /\ UNCHANGED <<callVars, innerVars, ctxErr, raceCtxErr, resultCh, noRaceVars, pc,
                 launched, raceOut, published, ctxFirst>>

\* variant: a late sender also overwrites the result the caller holds
RaceWorkerSendShared(i) ==
  /\ op = "Race" /\ wpc[i] = "select"
  /\ Len(resultCh) < 1
  /\ resultCh' = Append(resultCh, MakeResult(val[i], err[i], i))
  /\ wpc' = [wpc EXCEPT ![i] = "cancel"]
  /\ published' = Append(published, i)
  /\ raceOut' = IF pc = "returned" THEN RecvReturn(MakeResult(val[i], err[i], i))
                                   ELSE raceOut
  /\ UNCHANGED <<callVars, innerVars, ctxErr, raceCtxErr, noRaceVars, pc, launched,
                 val, err, finished, ctxFirst, tie>>

\* case resultCh <- res: ready while the buffer (capacity 1) has room
RaceWorkerSend(i) ==
  /\ op = "Race" /\ wpc[i] = "select"
  /\ Len(resultCh) < 1
  /\ resultCh' = Append(resultCh, MakeResult(val[i], err[i], i))
  /\ wpc' = [wpc EXCEPT ![i] = "cancel"]
  /\ published' = Append(published, i)
  /\ UNCHANGED <<callVars, innerVars, ctxErr, raceCtxErr, noRaceVars, pc, launched,
                 val, err, raceOut, finished, ctxFirst, tie>>

\* cancel() // Signal others to stop
RaceWorkerSignal(i) ==
  /\ op = "Race" /\ wpc[i] = "cancel"
  /\ raceCtxErr' = cancel(raceCtxErr)
  /\ wpc' = [wpc EXCEPT ![i] = "done"]
  /\ UNCHANGED <<callVars, innerVars, ctxErr, resultCh, noRaceVars, pc, launched,
                 val, err, raceOut, histVars>>

\* variant: the goroutine waits on the caller's ctx instead of raceCtx
RaceWorkerDiscardParent(i) ==
  /\ op = "Race" /\ wpc[i] = "select"
  /\ ctxErr # Nil
  /\ wpc' = [wpc EXCEPT ![i] = "done"]
  /\ UNCHANGED <<callVars, innerVars, ctxErr, raceCtxErr, resultCh, noRaceVars, pc,
                 launched, val, err, raceOut, histVars>>

\* case <-raceCtx.Done(): the result is dropped
RaceWorkerDiscard(i) ==
  /\ op = "Race" /\ wpc[i] = "select"
  /\ raceCtxErr # Nil
  /\ wpc' = [wpc EXCEPT ![i] = "done"]
  /\ UNCHANGED <<callVars, innerVars, ctxErr, raceCtxErr, resultCh, noRaceVars, pc,
                 launched, val, err, raceOut, histVars>>

RaceNext ==
  \/ RaceEmpty
  \/ RaceSetup
  \/ RaceLaunch
  \/ RaceRecv
  \/ RaceCtxDone
  \/ \E i \in Workers : RaceWorkerReturn(i)
  \/ \E i \in Workers : RaceWorkerCancelled(i)
  \/ \E i \in Workers : RaceWorkerSend(i)
  \/ \E i \in Workers : RaceWorkerSignal(i)
  \/ \E i \in Workers : RaceWorkerDiscard(i)

\* ---- NoRace -------------------------------------------------------------
\* make([]Result[T], n): n zero-valued results
MakeResults(n) == [k \in 1 .. n |-> ZeroResult]

\* variant: the closure uses the loop variable's last value as index
WriteResultLoopVar(rs, index, v, e) ==
  [rs EXCEPT ![Len(rs)] = MakeResult(v, e, Len(rs) - 1)]

\* results[index] = Result[T]{Value: val, Err: err, Index: index}
WriteResult(rs, index, v, e) == [rs EXCEPT ![index + 1] = MakeResult(v, e, index)]

\* variant: the flag is overwritten by every worker
SetHasErrorOverwrite(he, e) == e # Nil

\* if err != nil { hasError = true }
SetHasError(he, e) == IF e # Nil THEN TRUE ELSE he

\* variant: the failures are not filtered
ErrResultsAll(rs) == rs

\* for _, r := range results { if r.Err != nil { append(errResults, r) } }
ErrResults(rs) == SelectSeq(rs, LAMBDA r : r.Err # Nil)

\* variant: the failures are collected but a nil error is returned
NoRaceReturnValueNoErr(rs, he) == [results |-> rs, err |-> NilError]

\* if hasError { return results, &MultiError{errResults} }; return results, nil
NoRaceReturnValue(rs, he) ==
  [results |-> rs, err |-> IF he THEN MultiError(ErrResults(rs)) ELSE NilError]

\* variant: the wait group was given one worker too few
WaitReturnsEarly(w) == w <= 1

\* wg.Wait() returns once the counter is zero
WaitReturns(w) == w = 0

\* variant: the empty call returns a non-nil *MultiError without results
NoRaceEmptyTypedNil ==
  /\ op = "NoRace" /\ pc = "start" /\ nWorkers = 0
  /\ noRaceOut' = [results |-> <<>>, err |-> MultiError(<<>>)]
  /\ pc' = "returned"
  /\ UNCHANGED <<callVars, innerVars, ctxErr, raceVars, results, hasError, mu, wg,
                 launched, wpc, val, err, finished, ctxFirst>>

\* if len(workers) == 0 { return nil, nil }
NoRaceEmpty ==
  /\ op = "NoRace" /\ pc = "start" /\ nWorkers = 0
  /\ noRaceOut' = [results |-> <<>>, err |-> NilError]
  /\ pc' = "returned"
  /\ UNCHANGED <<callVars, innerVars, ctxErr, raceVars, results, hasError, mu, wg,
                 launched, wpc, val, err, finished, ctxFirst>>

\* results := make(...); var hasError bool; var mu; wg.Add(len(workers))
NoRaceSetup ==
  /\ op = "NoRace" /\ pc = "start" /\ nWorkers # 0
  /\ results' = MakeResults(nWorkers)
  /\ hasError' = FALSE
  /\ mu' = -1
  /\ wg' = nWorkers
  /\ pc' = "launch"
  /\ UNCHANGED <<callVars, innerVars, ctxErr, raceVars, noRaceOut, launched, wpc, val,
                 err, finished, ctxFirst>>

\* one iteration of the for loop: go func() {...}()
NoRaceLaunch ==
  /\ op = "NoRace" /\ pc = "launch" /\ launched < nWorkers
  /\ wpc' = [wpc EXCEPT ![launched] = "running"]
  /\ launched' = launched + 1
  /\ pc' = IF launched + 1 = nWorkers THEN "wait" ELSE "launch"
  /\ UNCHANGED <<callVars, innerVars, ctxErr, raceVars, noRaceVars, val, err, finished,
                 ctxFirst>>

\* wg.Wait(), then the collection of the failures and the return
NoRaceReturn ==
  /\ op = "NoRace" /\ pc = "wait"
  /\ WaitReturns(wg)
  /\ noRaceOut' = NoRaceReturnValue(results, hasError)
  /\ pc' = "returned"
  /\ UNCHANGED <<callVars, innerVars, ctxErr, raceVars, results, hasError, mu, wg,
                 launched, wpc, val, err, finished, ctxFirst>>

\* val, err := worker(ctx): the worker returns an outcome of its own
NoRaceWorkerReturn(i) ==
  /\ op = "NoRace" /\ wpc[i] = "running"
  /\ \E o \in {<<Val(i), Nil>>, <<Zero, Boom>>} :
       /\ val' = [val EXCEPT ![i] = o[1]]
       /\ err' = [err EXCEPT ![i] = o[2]]
  /\ wpc' = [wpc EXCEPT ![i] = "lock"]
  /\ finished' = Append(finished, i)
  /\ UNCHANGED <<callVars, innerVars, ctxErr, raceVars, noRaceVars, pc, launched,
                 ctxFirst>>

\* val, err := worker(ctx): the worker sees ctx.Done() and gives up
NoRaceWorkerCancelled(i) ==
  /\ op = "NoRace" /\ wpc[i] = "running"
  /\ waits[i]
  /\ ctxErr # Nil
  /\ val' = [val EXCEPT ![i] = Zero]
  /\ err' = [err EXCEPT ![i] = ctxErr]
  /\ wpc' = [wpc EXCEPT ![i] = "lock"]
  /\ finished' = Append(finished, i)
  /\ UNCHANGED <<callVars, innerVars, ctxErr, raceVars, noRaceVars, pc, launched,
                 ctxFirst>>

\* variant: the goroutine enters without taking the mutex
NoRaceLockNoMutex(i) ==
  /\ op = "NoRace" /\ wpc[i] = "lock"
  /\ mu' = i
  /\ wpc' = [wpc EXCEPT ![i] = "write"]
  /\ UNCHANGED <<callVars, innerVars, ctxErr, raceVars, results, hasError, wg, noRaceOut,
                 pc, launched, val, err, finished, ctxFirst>>

\* mu.Lock()
NoRaceLock(i) ==
  /\ op = "NoRace" /\ wpc[i] = "lock"
  /\ mu = -1
  /\ mu' = i
  /\ wpc' = [wpc EXCEPT ![i] = "write"]
  /\ UNCHANGED <<callVars, innerVars, ctxErr, raceVars, results, hasError, wg, noRaceOut,
                 pc, launched, val, err, finished, ctxFirst>>

\* results[index] = Result[T]{...}
NoRaceWrite(i) ==
  /\ op = "NoRace" /\ wpc[i] = "write"
  /\ results' = WriteResult(results, i, val[i], err[i])
  /\ wpc' = [wpc EXCEPT ![i] = "flag"]
  /\ UNCHANGED <<callVars, innerVars, ctxErr, raceVars, hasError, mu, wg, noRaceOut,
                 pc, launched, val, err, finished, ctxFirst>>

\* variant: a failing worker cancels the context of its siblings
NoRaceFlagCancels(i) ==
  /\ op = "NoRace" /\ wpc[i] = "flag"
  /\ hasError' = SetHasError(hasError, err[i])
  /\ ctxErr' = IF err[i] # Nil THEN cancel(ctxErr) ELSE ctxErr
  /\ wpc' = [wpc EXCEPT ![i] = "unlock"]
  /\ UNCHANGED <<callVars, innerVars, raceVars, results, mu, wg, noRaceOut,
                 pc, launched, val, err, finished, ctxFirst>>

\* if err != nil { hasError = true }
NoRaceFlag(i) ==
  /\ op = "NoRace" /\ wpc[i] = "flag"
  /\ hasError' = SetHasError(hasError, err[i])
  /\ wpc' = [wpc EXCEPT ![i] = "unlock"]
  /\ UNCHANGED <<callVars, innerVars, ctxErr, raceVars, results, mu, wg, noRaceOut,
                 pc, launched, val, err, finished, ctxFirst>>

\* mu.Unlock()
NoRaceUnlock(i) ==
  /\ op = "NoRace" /\ wpc[i] = "unlock"
  /\ mu' = -1
  /\ wpc' = [wpc EXCEPT ![i] = "wgdone"]
  /\ UNCHANGED <<callVars, innerVars, ctxErr, raceVars, results, hasError, wg, noRaceOut,
                 pc, launched, val, err, finished, ctxFirst>>

\* defer wg.Done()
NoRaceWgDone(i) ==
  /\ op = "NoRace" /\ wpc[i] = "wgdone"
  /\ wg' = wg - 1
  /\ wpc' = [wpc EXCEPT ![i] = "done"]
  /\ UNCHANGED <<callVars, innerVars, ctxErr, raceVars, results, hasError, mu, noRaceOut,
                 pc, launched, val, err, finished, ctxFirst>>

NoRaceNext ==
  \/ NoRaceEmpty
  \/ NoRaceSetup
  \/ NoRaceLaunch
  \/ NoRaceReturn
  \/ \E i \in Workers : NoRaceWorkerReturn(i)
  \/ \E i \in Workers : NoRaceWorkerCancelled(i)
  \/ \E i \in Workers : NoRaceLock(i)
  \/ \E i \in Workers : NoRaceWrite(i)
  \/ \E i \in Workers : NoRaceFlag(i)
  \/ \E i \in Workers : NoRaceUnlock(i)
  \/ \E i \in Workers : NoRaceWgDone(i)

\* ---- NoRace called by the workers of NoRace ----------------------------
\* worker g of the outer call is  func(ctx) { return NoRace(ctx, list_g...) }
\* every variable of the inner call of worker g is indexed by g

\* value worker k of list g returns on success
IVal(g, k) == 100 * (g + 1) + (k + 1)

\* text of a non-nil *MultiError, as the error the outer worker returns
MultiErrorText == "multiple errors occurred:"

\* the error value an outer worker passes on from its NoRace call
ErrorOf(e) == IF e.isNil THEN Nil ELSE MultiErrorText

InnerWorkers(g) == 0 .. (gsize[g] - 1)

outerVars == <<callVars, ctxErr, raceVars, noRaceVars, pc, launched, wpc,
               val, err, finished, ctxFirst>>

\* return NoRace(ctx, list_g...): val, err := worker(ctx) of the outer call
WorkerGets(g, out) ==
  /\ val' = [val EXCEPT ![g] = out.results]
  /\ err' = [err EXCEPT ![g] = ErrorOf(out.err)]
  /\ wpc' = [wpc EXCEPT ![g] = "lock"]
  /\ finished' = Append(finished, g)
  /\ ipc' = [ipc EXCEPT ![g] = "returned"]
  /\ UNCHANGED <<callVars, ctxErr, raceVars, noRaceVars, pc, launched, ctxFirst>>

\* inner call: if len(workers) == 0 { return nil, nil }
InnerEmpty(g) ==
  /\ op = "NoRace" /\ wpc[g] = "running"
  /\ ipc[g] = "start" /\ gsize[g] = 0
  /\ WorkerGets(g, [results |-> <<>>, err |-> NilError])
  /\ UNCHANGED <<gsize, ilaunched, iwpc, ival, ierr, iresults, ihasError, imu, iwg>>

\* inner call: results := make(...); wg.Add(len(workers))
InnerSetup(g) ==
  /\ op = "NoRace" /\ wpc[g] = "running"
  /\ ipc[g] = "start" /\ gsize[g] # 0
  /\ iresults' = [iresults EXCEPT ![g] = MakeResults(gsize[g])]
  /\ ihasError' = [ihasError EXCEPT ![g] = FALSE]
  /\ imu' = [imu EXCEPT ![g] = -1]
  /\ iwg' = [iwg EXCEPT ![g] = gsize[g]]
  /\ ipc' = [ipc EXCEPT ![g] = "launch"]
  /\ UNCHANGED <<outerVars, gsize, ilaunched, iwpc, ival, ierr>>

\* inner call: one iteration of the for loop
InnerLaunch(g) ==
  /\ op = "NoRace" /\ wpc[g] = "running"
  /\ ipc[g] = "launch" /\ ilaunched[g] < gsize[g]
  /\ iwpc' = [iwpc EXCEPT ![g][ilaunched[g]] = "running"]
  /\ ilaunched' = [ilaunched EXCEPT ![g] = ilaunched[g] + 1]
  /\ ipc' = [ipc EXCEPT ![g] = IF ilaunched[g] + 1 = gsize[g] THEN "wait" ELSE "launch"]
  /\ UNCHANGED <<outerVars, gsize, ival, ierr, iresults, ihasError, imu, iwg>>

\* inner call: wg.Wait(), the collection of the failures and the return
InnerReturn(g) ==
  /\ op = "NoRace" /\ wpc[g] = "running"
  /\ ipc[g] = "wait"
  /\ WaitReturns(iwg[g])
  /\ WorkerGets(g, NoRaceReturnValue(iresults[g], ihasError[g]))
  /\ UNCHANGED <<gsize, ilaunched, iwpc, ival, ierr, iresults, ihasError, imu, iwg>>

\* inner goroutine: val, err := worker(ctx)
InnerWorkerReturn(g, k) ==
  /\ op = "NoRace" /\ iwpc[g][k] = "running"
  /\ \E o \in {<<IVal(g, k), Nil>>, <<Zero, Boom>>}
              \cup (IF ctxErr # Nil THEN {<<Zero, ctxErr>>} ELSE {}) :
       /\ ival' = [ival EXCEPT ![g][k] = o[1]]
       /\ ierr' = [ierr EXCEPT ![g][k] = o[2]]
  /\ iwpc' = [iwpc EXCEPT ![g][k] = "lock"]
  /\ UNCHANGED <<outerVars, gsize, ipc, ilaunched, iresults, ihasError, imu, iwg>>

\* inner goroutine: mu.Lock(); results[index] = ...; if err != nil
\* { hasError = true }; mu.Unlock(); then the deferred wg.Done().  The
\* section is one step here: while mu is held no other goroutine touches
\* this call's results and hasError.
InnerRecord(g, k) ==
  /\ op = "NoRace" /\ iwpc[g][k] = "lock"
  /\ imu[g] = -1
  /\ iresults' = [iresults EXCEPT ![g] = WriteResult(iresults[g], k, ival[g][k], ierr[g][k])]
  /\ ihasError' = [ihasError EXCEPT ![g] = SetHasError(ihasError[g], ierr[g][k])]
  /\ iwg' = [iwg EXCEPT ![g] = iwg[g] - 1]
  /\ iwpc' = [iwpc EXCEPT ![g][k] = "done"]
  /\ UNCHANGED <<outerVars, gsize, ipc, ilaunched, ival, ierr, imu>>

InnerNext ==
  \/ \E g \in Workers : InnerEmpty(g)
  \/ \E g \in Workers : InnerSetup(g)
  \/ \E g \in Workers : InnerLaunch(g)
  \/ \E g \in Workers : InnerReturn(g)
  \/ \E g \in Workers : \E k \in InnerWorkers(g) : InnerWorkerReturn(g, k)
  \/ \E g \in Workers : \E k \in InnerWorkers(g) : InnerRecord(g, k)

\* len(list_0) + ... + len(list_(n-1))
RECURSIVE SumSizes(_, _)
SumSizes(sz, n) == IF n = 0 THEN 0 ELSE sz[n - 1] + SumSizes(sz, n - 1)

\* the outer call, whose workers call NoRace on lists of MaxInner workers in
\* total; ctx := context.Background(), which is never done
NestedInit ==
  /\ op = "NoRace"
  /\ nWorkers \in 0 .. MaxWorkers
  /\ waits = [i \in 0 .. (nWorkers - 1) |-> FALSE]
  /\ ctxErr = Nil
  /\ raceCtxErr = Nil
  /\ resultCh = <<>>
  /\ results = <<>>
  /\ hasError = FALSE
  /\ mu = -1
  /\ wg = 0
  /\ pc = "start"
  /\ launched = 0
  /\ wpc = [i \in 0 .. (nWorkers - 1) |-> "idle"]
  /\ val = [i \in 0 .. (nWorkers - 1) |-> <<>>]
  /\ err = [i \in 0 .. (nWorkers - 1) |-> Nil]
  /\ raceOut = [res |-> ZeroResult, err |-> Nil]
  /\ noRaceOut = [results |-> <<>>, err |-> NilError]
  /\ finished = <<>>
  /\ published = <<>>
  /\ ctxFirst = (ctxErr # Nil)
  /\ tie = FALSE
  /\ gsize \in [0 .. (nWorkers - 1) -> 0 .. MaxInner]
  /\ SumSizes(gsize, nWorkers) <= MaxInner
  /\ InnerStart

NestedNext ==
  \/ NoRaceEmpty
  \/ NoRaceSetup
  \/ NoRaceLaunch
  \/ NoRaceReturn
  \/ \E i \in Workers : NoRaceLock(i)
  \/ \E i \in Workers : NoRaceWrite(i)
  \/ \E i \in Workers : NoRaceFlag(i)
  \/ \E i \in Workers : NoRaceUnlock(i)
  \/ \E i \in Workers : NoRaceWgDone(i)
  \/ InnerNext

NestedSpec == NestedInit /\ [][NestedNext]_vars

Next ==
  \/ CancelCtx
  \/ PropagateCancel
  \/ RaceNext
  \/ NoRaceNext

Spec == Init /\ [][Next]_vars

\* the indices a worker list can have
WorkerIds == 0 .. (MaxWorkers - 1)

\* a call of Race, for the properties of Race that need fair scheduling
RaceInit == Init /\ op = "Race"

RaceOnlyNext ==
  \/ CancelCtx
  \/ PropagateCancel
  \/ RaceNext

\* Scheduling: every goroutine that can take a step eventually takes one
\* (the Go scheduler is preemptive); a select with several ready cases takes
\* some case.  A worker's own return and the caller's cancellation are not
\* forced.
RaceFairness ==
  /\ WF_vars(PropagateCancel)
  /\ WF_vars(RaceEmpty \/ RaceSetup \/ RaceLaunch)
  /\ WF_vars(RaceRecv \/ RaceCtxDone)
  /\ \A i \in WorkerIds :
       /\ WF_vars(i \in Workers /\ RaceWorkerCancelled(i))
       /\ WF_vars(i \in Workers /\ (RaceWorkerSend(i) \/ RaceWorkerDiscard(i)))
       /\ WF_vars(i \in Workers /\ RaceWorkerSignal(i))

RaceLiveSpec == RaceInit /\ [][RaceOnlyNext]_vars /\ RaceFairness

\* ======================= properties ======================================

\* C1 - Race winner correctness: with a non-empty worker list, a parent
\* context not cancelled and workers finishing at strictly distinct times (no
\* worker returned while another one was still at its select), Race returns
\* the Result of the worker that finished first: its index, its value, and
\* its own error as the returned error.
RaceWinnerCorrect ==
  (op = "Race" /\ pc = "returned" /\ nWorkers > 0 /\ ctxErr = Nil /\ ~tie) =>
    /\ finished # <<>>
    /\ raceOut.res.Index = finished[1]
    /\ raceOut.res.Value = val[finished[1]]
    /\ raceOut.res.Err = err[finished[1]]
    /\ raceOut.err = err[finished[1]]

\* a failing worker finished first, a second worker finished later, and Race
\* has returned
RaceWinnerWitness ==
  /\ op = "Race" /\ pc = "returned" /\ ctxErr = Nil /\ ~tie
  /\ Len(finished) = 2
  /\ err[finished[1]] = Boom
  /\ finished[1] = 1
  /\ err[finished[2]] = Nil

\* C2 - Race external cancellation: if ctx was done before any worker
\* published, Race returns Index -1 with ctx's error as Result.Err and as the
\* returned error, never a worker's Result.
RaceExternalCancel ==
  (op = "Race" /\ pc = "returned" /\ nWorkers > 0 /\ ctxFirst) =>
    /\ raceOut.res.Index = -1
    /\ raceOut.res.Err = ctxErr
    /\ raceOut.err = ctxErr

\* C3 - Race cancellation propagation: once Race has returned the child scope
\* is cancelled; under fair scheduling the child scope becomes cancelled once
\* a worker has published or the parent context is done, and a worker that
\* waits on its context does not stay running after Race returned.  (Each
\* condition, once true, stays true, so "eventually" is stated as []<>.)
RaceCancellationPropagates ==
  /\ []((op = "Race" /\ nWorkers > 0 /\ pc = "returned") => raceCtxErr # Nil)
  /\ []<>(/\ (op = "Race" /\ published # <<>>) => raceCtxErr # Nil
          /\ (op = "Race" /\ nWorkers > 0 /\ ctxErr # Nil) => raceCtxErr # Nil
          /\ (op = "Race" /\ pc = "returned") =>
               \A i \in Workers : waits[i] => wpc[i] # "running")

\* Race has returned a winner, and a loser that waited on its context has
\* observed the cancellation
RaceCancellationWitness ==
  /\ op = "Race" /\ pc = "returned" /\ nWorkers = 2 /\ ctxErr = Nil
  /\ raceOut.res.Index = 0 /\ raceOut.err = Nil
  /\ waits[1] /\ wpc[1] = "done" /\ err[1] = Canceled

\* C4 - NoRace barrier: when NoRace has returned, every launched worker
\* goroutine has completed and the wait group is at zero, also when ctx is
\* done or a worker failed.
NoRaceBarrier ==
  (op = "NoRace" /\ pc = "returned") =>
    /\ launched = nWorkers
    /\ \A i \in Workers : wpc[i] = "done"
    /\ mu = -1
    /\ nWorkers > 0 => wg = 0

\* NoRace has returned with ctx done and one worker failed
NoRaceBarrierWitness ==
  /\ op = "NoRace" /\ pc = "returned" /\ nWorkers = 2
  /\ ctxErr # Nil
  /\ err[0] = Boom /\ err[1] = Nil /\ val[1] = Val(1)

\* C5 - NoRace order preservation: the returned sequence has length n and
\* its i-th entry has Index i and the value and error worker i returned.
NoRaceOrderPreserved ==
  (op = "NoRace" /\ pc = "returned") =>
    /\ Len(noRaceOut.results) = nWorkers
    /\ \A i \in Workers :
         /\ noRaceOut.results[i + 1].Index = i
         /\ noRaceOut.results[i + 1].Value = val[i]
         /\ noRaceOut.results[i + 1].Err = err[i]

\* NoRace has returned after worker 1 completed before worker 0
NoRaceOrderWitness ==
  /\ op = "NoRace" /\ pc = "returned" /\ nWorkers = 2
  /\ finished = <<1, 0>>
  /\ val[0] = Val(0) /\ val[1] = Val(1)

\* C6 - NoRace aggregate error: when a worker failed, the error is a
\* MultiError whose Results are the failing entries of the output, once each,
\* in ascending index order, and the successful values are in the output.
NoRaceAggregateError ==
  (op = "NoRace" /\ pc = "returned" /\ \E i \in Workers : err[i] # Nil) =>
    LET m == noRaceOut.err.Results
        out == noRaceOut.results IN
      /\ ~noRaceOut.err.isNil
      /\ \A k \in 1 .. Len(m) :
           /\ m[k].Err # Nil
           /\ m[k].Index \in Workers
           /\ m[k] = out[m[k].Index + 1]
      /\ \A k \in 1 .. (Len(m) - 1) : m[k].Index < m[k + 1].Index
      /\ \A i \in Workers : err[i] # Nil => \E k \in 1 .. Len(m) : m[k].Index = i
      /\ \A i \in Workers : err[i] = Nil => out[i + 1] = MakeResult(Val(i), Nil, i)

\* NoRace has returned where worker 0 succeeded and worker 1 failed
NoRaceAggregateWitness ==
  /\ op = "NoRace" /\ pc = "returned" /\ nWorkers = 2
  /\ err[0] = Nil /\ err[1] = Boom
  /\ Len(noRaceOut.err.Results) = 1

\* C7 - NoRace error iff failure: the returned error is nil exactly when no
\* worker returned an error, and after the join the flag is true exactly when
\* some entry of the output has an error.
NoRaceErrorIffFailure ==
  (op = "NoRace" /\ pc = "returned" /\ nWorkers > 0) =>
    /\ noRaceOut.err.isNil <=> (\A i \in Workers : err[i] = Nil)
    /\ hasError <=> (\E k \in 1 .. Len(results) : results[k].Err # Nil)

\* NoRace has returned where a failing worker completed before a successful
\* one
NoRaceErrorIffWitness ==
  /\ op = "NoRace" /\ pc = "returned" /\ nWorkers = 2
  /\ err[finished[1]] = Boom /\ err[finished[2]] = Nil
  /\ ~noRaceOut.err.isNil

\* C8 - NoRace does not cancel siblings: during a NoRace call the state of
\* ctx changes only by the caller's own cancellation, never by a step of
\* NoRace or of a worker goroutine, and no child scope is created.
NoRaceLeavesCtx ==
  [][op = "NoRace" => /\ (ctxErr' # ctxErr => CancelCtx)
                      /\ raceCtxErr' = Nil]_vars

\* a worker failed first, its sibling then ran to completion with success,
\* and ctx is still not done
NoRaceLeavesCtxWitness ==
  /\ op = "NoRace" /\ pc = "returned" /\ nWorkers = 2 /\ ctxErr = Nil
  /\ finished = <<0, 1>>
  /\ err[0] = Boom /\ err[1] = Nil /\ val[1] = Val(1)

\* C9 - Race empty input: with zero workers Race can always return at once,
\* launches nothing, and returns a zero-valued Result and a nil error, also
\* when ctx is done.
RaceEmptyInput ==
  (op = "Race" /\ nWorkers = 0) =>
    /\ pc \in {"start", "returned"}
    /\ launched = 0
    /\ pc = "start" => ENABLED RaceEmpty
    /\ pc = "returned" =>
         /\ raceOut.res = [Value |-> Zero, Err |-> Nil, Index |-> 0]
         /\ raceOut.err = Nil
         /\ resultCh = <<>> /\ raceCtxErr = Nil

\* Race over zero workers has returned while ctx is done
RaceEmptyWitness ==
  op = "Race" /\ nWorkers = 0 /\ pc = "returned" /\ ctxErr # Nil

\* C10 - NoRace empty input: with zero workers NoRace can always return at
\* once, launches nothing and waits for nothing, and returns an empty
\* sequence and a nil error, also when ctx is done.
NoRaceEmptyInput ==
  (op = "NoRace" /\ nWorkers = 0) =>
    /\ pc \in {"start", "returned"}
    /\ launched = 0
    /\ pc = "start" => ENABLED NoRaceEmpty
    /\ pc = "returned" =>
         /\ noRaceOut.results = <<>>
         /\ noRaceOut.err.isNil
         /\ wg = 0 /\ results = <<>>

\* NoRace over zero workers has returned while ctx is done
NoRaceEmptyWitness ==
  op = "NoRace" /\ nWorkers = 0 /\ pc = "returned" /\ ctxErr # Nil

\* C12 - Race no double-completion: Race takes a result from the channel only
\* in the step in which it returns, and once it has returned it stays
\* returned and the Result and error the caller holds never change, whatever
\* the workers do afterwards.
RaceReturnsOnce ==
  [][op = "Race" =>
       /\ (resultCh # <<>> /\ resultCh' = Tail(resultCh)) =>
            (pc = "select" /\ pc' = "returned" /\ raceOut'.res = Head(resultCh))
       /\ pc = "returned" => (pc' = "returned" /\ raceOut' = raceOut)
       /\ raceOut' # raceOut => (pc # "returned" /\ pc' = "returned")]_vars

\* both workers finished before Race received; Race returned the first
\* result and the second worker's send succeeded afterwards
RaceReturnsOnceWitness ==
  /\ op = "Race" /\ pc = "returned" /\ nWorkers = 2
  /\ Len(published) = 2
  /\ tie
  /\ raceOut.res.Index = published[1]
  /\ raceOut.res.Value = Val(published[1])

\* C13 - Race single successful publish: over the whole lifetime of the
\* worker goroutines, also after Race returned, no second send on the
\* completion channel succeeds.
RaceSinglePublish ==
  op = "Race" => Len(published) <= 1

\* C14 - Race winner survives later cancellation: if a send succeeded while
\* ctx was not done, Race returns that worker's Result and error, also when
\* ctx becomes done before Race receives; Index -1 is returned only when
\* ctx was done before any send succeeded.
RaceWinnerSurvivesCancel ==
  (op = "Race" /\ pc = "returned" /\ nWorkers > 0) =>
    /\ (published # <<>> /\ ~ctxFirst) =>
         /\ raceOut.res = MakeResult(val[published[1]], err[published[1]], published[1])
         /\ raceOut.err = err[published[1]]
    /\ raceOut.res.Index = -1 => ctxFirst

\* C15 - Race termination: Race returns only if it had no workers, a worker
\* completed, or ctx is done (it has no timeout of its own); under fair
\* scheduling, once a worker has completed or ctx is done Race returns, and
\* a single result in the channel is enough for it to return.
RaceTerminates ==
  /\ []((op = "Race" /\ pc = "returned") =>
          (nWorkers = 0 \/ finished # <<>> \/ ctxErr # Nil))
  /\ []((op = "Race" /\ pc = "select" /\ Len(resultCh) = 1) => ENABLED RaceRecv)
  /\ []<>((op = "Race" /\ (finished # <<>> \/ ctxErr # Nil)) => pc = "returned")

\* Race has returned after one of two workers completed, the other one
\* still running, ctx not done
RaceTerminatesWitness ==
  /\ op = "Race" /\ pc = "returned" /\ nWorkers = 2 /\ ctxErr = Nil
  /\ Len(finished) = 1
  /\ raceOut.res.Index = finished[1]

\* C16 - Race does not join losers: whenever a result is in the channel,
\* Race can return at once, whatever the other worker goroutines are doing;
\* and whenever ctx is done it can return at once as well.
RaceDoesNotJoin ==
  (op = "Race" /\ pc = "select") =>
    /\ resultCh # <<>> => ENABLED RaceRecv
    /\ ctxErr # Nil => ENABLED RaceCtxDone

\* Race has returned the winner's Result while the loser is still running
RaceDoesNotJoinWitness ==
  /\ op = "Race" /\ pc = "returned" /\ nWorkers = 2
  /\ raceOut.res.Index = 1 /\ raceOut.res.Value = Val(1) /\ raceOut.err = Nil
  /\ wpc[0] = "running"
  /\ wpc[1] = "done"

\* the set of elements of a sequence
Range(s) == {s[k] : k \in 1 .. Len(s)}

\* C17 - Single-shot invocation: once the combinator waits (or has
\* returned) all n goroutines have been launched; a goroutine enters its
\* worker call only from the launch, never again; no worker returns twice,
\* and when all goroutines are done each worker has returned exactly once.
SingleShot ==
  /\ [](/\ launched <= nWorkers
        /\ pc \in {"select", "wait"} \/ (pc = "returned" /\ nWorkers > 0) =>
             (launched = nWorkers /\ \A i \in Workers : wpc[i] # "idle")
        /\ \A i \in Workers : (wpc[i] = "idle") <=> (i >= launched)
        /\ Len(finished) = Cardinality(Range(finished))
        /\ \A i \in Workers : (i \in Range(finished)) <=> (wpc[i] \notin {"idle", "running"}))
  /\ [][\A i \in Workers :
          /\ (wpc'[i] = "running" /\ wpc[i] # "running") =>
               (wpc[i] = "idle" /\ i = launched /\ pc = "launch")
          /\ (wpc[i] \notin {"idle", "running"}) =>
               (val'[i] = val[i] /\ err'[i] = err[i])]_vars

\* a Race in which the first worker had already published while the loop
\* still had a goroutine to launch, now all launched and done
SingleShotWitness ==
  /\ op = "Race" /\ pc = "returned" /\ nWorkers = 2
  /\ finished = <<0, 1>>
  /\ published = <<0>>
  /\ err[0] = Boom
  /\ \A i \in Workers : wpc[i] = "done"

\* the goroutines inside the mutex-protected section
InCritical == {i \in Workers : wpc[i] \in {"write", "flag", "unlock"}}

\* C18 - NoRace mutual exclusion: at most one goroutine is inside the
\* section that writes results and hasError, and it is the holder of the
\* mutex; slot i is written only by goroutine i, in its one write step; the
\* flag is written only inside the section; NoRace reads both only when all
\* goroutines have left the section and signalled the wait group.
NoRaceMutualExclusion ==
  /\ [](op = "NoRace" =>
          /\ Cardinality(InCritical) <= 1
          /\ \A i \in Workers : (mu = i) <=> (i \in InCritical)
          /\ wg = Cardinality({i \in Workers : wpc[i] # "done"}) \/ pc = "start")
  /\ [][(op = "NoRace" /\ pc # "start") =>
          /\ \A i \in Workers :
               results'[i + 1] # results[i + 1] =>
                 (wpc[i] = "write" /\ wpc'[i] = "flag" /\ results[i + 1] = ZeroResult)
          /\ hasError' # hasError => \E i \in Workers : wpc[i] = "flag" /\ mu = i
          /\ noRaceOut' # noRaceOut =>
               (InCritical = {} /\ mu = -1 /\ wg = 0)]_vars

\* one goroutine holds the mutex while the other one waits for it
NoRaceMutualExclusionWitness ==
  /\ op = "NoRace" /\ nWorkers = 2
  /\ wpc[0] = "lock" /\ wpc[1] = "flag" /\ mu = 1
  /\ err[0] = Boom /\ err[1] = Boom

\* C19 (as claimed) - on every return path of Race the returned error is the
\* Err of the returned Result and the Index is -1 (ctx done) or a position
\* in 0..n-1 whose worker produced the returned Value and Err.
RaceResultConsistentAll ==
  (op = "Race" /\ pc = "returned") =>
    /\ raceOut.err = raceOut.res.Err
    /\ \/ raceOut.res.Index = -1 /\ ctxErr # Nil
       \/ /\ raceOut.res.Index \in Workers
          /\ raceOut.res.Value = val[raceOut.res.Index]
          /\ raceOut.res.Err = err[raceOut.res.Index]

\* C19 - Race result/error consistency: on every return path of Race the
\* returned error is the Err of the returned Result; for a non-empty worker
\* list the Index is -1 (only with ctx done, Err being ctx's error) or a
\* position in 0..n-1 whose worker produced the returned Value and Err; for
\* an empty list it is the zero Result, whose Index 0 is no worker's.
RaceResultConsistent ==
  (op = "Race" /\ pc = "returned") =>
    /\ raceOut.err = raceOut.res.Err
    /\ nWorkers = 0 => raceOut.res = ZeroResult
    /\ nWorkers > 0 =>
         \/ raceOut.res = MakeResult(Zero, ctxErr, -1) /\ ctxErr # Nil
         \/ /\ raceOut.res.Index \in Workers
            /\ wpc[raceOut.res.Index] \in {"cancel", "done"}
            /\ raceOut.res.Value = val[raceOut.res.Index]
            /\ raceOut.res.Err = err[raceOut.res.Index]

\* Race has returned Index -1 because ctx's deadline passed
RaceResultConsistentWitness ==
  /\ op = "Race" /\ pc = "returned" /\ nWorkers = 2
  /\ raceOut.res.Index = -1 /\ raceOut.err = DeadlineExceeded
  /\ finished # <<>>

\* C20 - Race publish never leaks a goroutine: once Race has returned, a
\* goroutine at its select can always proceed (the child scope is done), and
\* under fair scheduling no goroutine whose worker returned stays at its
\* select or before its cancel().
RaceNoLeak ==
  /\ []((op = "Race" /\ pc = "returned") =>
          \A i \in Workers : wpc[i] = "select" => ENABLED RaceWorkerDiscard(i))
  /\ []<>((op = "Race" /\ pc = "returned") =>
            \A i \in Workers : wpc[i] \notin {"select", "cancel"})

\* Race returned on ctx.Done() with a result left in the full channel, and
\* the other goroutine, which could not send, has terminated
RaceNoLeakWitness ==
  /\ op = "Race" /\ pc = "returned" /\ nWorkers = 2
  /\ raceOut.res.Index = -1
  /\ Len(resultCh) = 1
  /\ Len(finished) = 2 /\ Len(published) = 1
  /\ \A i \in Workers : wpc[i] = "done"

\* C11 - Composability of nested NoRace: when every worker of an outer
\* NoRace runs an inner NoRace over its own list, then once the outer call
\* has returned every inner worker of every group has completed, the outer
\* result at position g has Index g and as Value group g's full result
\* sequence in inner order (inner Index = inner position, with the value and
\* error that inner worker returned), and the outer error is nil exactly
\* when no inner worker of any group failed.
NestedNoRaceComposes ==
  (op = "NoRace" /\ pc = "returned") =>
    /\ Len(noRaceOut.results) = nWorkers
    /\ \A g \in Workers :
         /\ ipc[g] = "returned"
         /\ \A k \in InnerWorkers(g) : iwpc[g][k] = "done"
         /\ noRaceOut.results[g + 1].Index = g
         /\ Len(noRaceOut.results[g + 1].Value) = gsize[g]
         /\ \A k \in InnerWorkers(g) :
              noRaceOut.results[g + 1].Value[k + 1] =
                [Value |-> ival[g][k], Err |-> ierr[g][k], Index |-> k]
    /\ noRaceOut.err.isNil <=>
         (\A g \in Workers : \A k \in InnerWorkers(g) : ierr[g][k] = Nil)

\* group 0 of two workers and group 1 of one worker, all successful, group 1
\* completed first: the outer call has returned their result sequences
NestedNoRaceWitness ==
  /\ op = "NoRace" /\ pc = "returned" /\ nWorkers = 2
  /\ gsize[0] = 2 /\ gsize[1] = 1
  /\ finished = <<1, 0>>
  /\ noRaceOut.err.isNil
  /\ noRaceOut.results[1].Value =
       << [Value |-> IVal(0, 0), Err |-> Nil, Index |-> 0],
          [Value |-> IVal(0, 1), Err |-> Nil, Index |-> 1] >>
  /\ noRaceOut.results[2].Value = << [Value |-> IVal(1, 0), Err |-> Nil, Index |-> 0] >>

====
